---- MODULE Spec2Model ----
(***************************************************************************)
(* Model of data_preparation.py: crop_image, process_folder,               *)
(* rotate_images_in_folder and the driver block.                           *)
(*                                                                         *)
(* A file name is a record [words, ext]: the name is the words joined by   *)
(* "_", a dot, and the extension.  A word is either "a" or one of the four *)
(* corner labels, so the Python test  label in file  is true exactly when  *)
(* one of the words is the label (no label can straddle a "_" joint of     *)
(* these words).  A folder is a function from the names it holds to their  *)
(* content.                                                                *)
(***************************************************************************)
EXTENDS Integers, Sequences, FiniteSets, TLC

\* ------------------------------------------------------------------ bounds
MaxFiles == 2
MaxPasses == 2

\* --------------------------------------------------------- program constants
required_size == 800
crop_size == 512
crop_names == <<"kiri_atas", "kanan_atas", "kiri_bawah", "kanan_bawah">>

\* ------------------------------------------------------------- input space
Dims == {<<800, 800>>, <<800, 600>>, <<600, 800>>}

\* The names an input folder is drawn from: two that differ in the extension
\* only (one of them in upper case), one whose base name is itself a corner
\* label, and one the extension filter drops.
InNames == {[words |-> <<"a">>, ext |-> "tif"],
            [words |-> <<"a">>, ext |-> "TIFF"],
            [words |-> <<"kanan_bawah">>, ext |-> "tif"],
            [words |-> <<"a">>, ext |-> "png"]}

\* What a source file can be: a readable image of some size, or something
\* Image.open raises on.
SrcKinds == {[readable |-> TRUE, w |-> d[1], h |-> d[2]] : d \in Dims}
            \cup {[readable |-> FALSE, w |-> 0, h |-> 0]}

Earlier == [words |-> <<"earlier">>, ext |-> "tiff"]
NoBox == <<0, 0, 0, 0>>

\* ------------------------------------------------------------ pure helpers
RECURSIVE SeqToSet(_)
SeqToSet(s) == IF s = <<>> THEN {} ELSE {Head(s)} \cup SeqToSet(Tail(s))

\* str.lower() on the extensions that occur.
lower(e) == CASE e = "TIFF" -> "tiff"
              [] e = "TIF" -> "tif"
              [] e = "PNG" -> "png"
              [] OTHER -> e

\* f.lower().endswith(('.tiff', '.tif'))
is_tiff(f) == lower(f.ext) \in {"tiff", "tif"}

\* label in file
contains(f, label) == \E i \in DOMAIN f.words : f.words[i] = label

\* os.path.splitext(os.path.basename(input_path))[0]
base_name(f) == f.words

\* The output name with the suffix .tif in place of .tiff.
output_path_tif(base, name) == [words |-> Append(base, name), ext |-> "tif"]

\* os.path.join(output_dir, f"{base_name}_{name}.tiff")
output_path(base, name) == [words |-> Append(base, name), ext |-> "tiff"]

crop_coords_swapped(width, height) ==
    << <<0, 0, crop_size, crop_size>>,
       <<crop_size, 0, width, crop_size>>,
       <<0, crop_size, crop_size, height>>,
       <<crop_size, crop_size, width, height>> >>

\* (left, upper, right, lower) of the four corners
crop_coords(width, height) ==
    << <<0, 0, crop_size, crop_size>>,
       <<width - crop_size, 0, width, crop_size>>,
       <<0, height - crop_size, crop_size, height>>,
       <<width - crop_size, height - crop_size, width, height>> >>

\* ---------------------------------------------------------- folder entries
\* kind "image": a readable, writable image; "readonly": a readable image
\* whose path cannot be opened for writing; "blocked": an entry that is no
\* image and cannot be overwritten (a directory of that name).
Img(src, box, rot) == [kind |-> "image", src |-> src, box |-> box, rot |-> rot]
Blocked == [kind |-> "blocked", src |-> Earlier, box |-> NoBox, rot |-> 0]

ImgW(e) == e.box[3] - e.box[1]
ImgH(e) == e.box[4] - e.box[2]

\* Image.save(path) raises when the path exists and cannot be written.
can_save(dir, path) == path \notin DOMAIN dir \/ dir[path].kind = "image"

put(dir, path, e) == [n \in DOMAIN dir \cup {path} |-> IF n = path THEN e ELSE dir[n]]

\* ------------------------------------------------------------- crop_image
\* The loop of crop_image from its i-th corner on: image.crop, the output
\* name, cropped.save.  A save that raises ends the call in the except
\* clause; the crops saved before it stay where they are.
RECURSIVE save_crops_keep_going(_, _, _, _, _, _)
save_crops_keep_going(i, input_path, coords, dir, saved, attempted) ==
    IF i > Len(crop_names)
    THEN [ok |-> Len(saved) = Len(attempted),
          err |-> IF Len(saved) = Len(attempted) THEN "none" ELSE "exception",
          dir |-> dir, saved |-> saved, attempted |-> attempted]
    ELSE LET path == output_path(base_name(input_path), crop_names[i])
             cropped == Img(input_path, coords[i], 0)
         IN  IF can_save(dir, path)
             THEN save_crops_keep_going(i + 1, input_path, coords, put(dir, path, cropped),
                                        Append(saved, path), Append(attempted, path))
             ELSE save_crops_keep_going(i + 1, input_path, coords, dir,
                                        saved, Append(attempted, path))

RECURSIVE save_crops(_, _, _, _, _, _)
save_crops(i, input_path, coords, dir, saved, attempted) ==
    IF i > Len(crop_names)
    THEN [ok |-> TRUE, err |-> "none", dir |-> dir, saved |-> saved, attempted |-> attempted]
    ELSE LET path == output_path(base_name(input_path), crop_names[i])
             cropped == Img(input_path, coords[i], 0)
         IN  IF can_save(dir, path)
             THEN save_crops(i + 1, input_path, coords, put(dir, path, cropped),
                             Append(saved, path), Append(attempted, path))
             ELSE [ok |-> FALSE, err |-> "exception", dir |-> dir,
                   saved |-> saved, attempted |-> Append(attempted, path)]

\* The size test of crop_image with "and" in place of "or".
size_rejected_and(width, height) == width # required_size /\ height # required_size

\* width != 800 or height != 800
size_rejected(width, height) == width # required_size \/ height # required_size

\* crop_image(input_path, output_dir): image is the content of input_path,
\* dir the output folder.  The result holds the return value, which of the
\* two failure exits was taken, the output folder afterwards, and the paths
\* save was called on (attempted) and returned from (saved), in order.
crop_image(input_path, image, dir) ==
    IF ~image.readable
    THEN [ok |-> FALSE, err |-> "exception", dir |-> dir, saved |-> <<>>, attempted |-> <<>>]
    ELSE IF size_rejected(image.w, image.h)
    THEN [ok |-> FALSE, err |-> "size", dir |-> dir, saved |-> <<>>, attempted |-> <<>>]
    ELSE save_crops(1, input_path, crop_coords(image.w, image.h), dir, <<>>, <<>>)

\* ------------------------------------------------ rotate_images_in_folder
rot_labels == <<"kanan_atas", "kanan_bawah", "kiri_bawah">>
rot_angles == <<-90, -180, -270>>

\* The if / elif / elif chain on the file name: the index of the branch
\* taken, 0 when none is.
branch(file) ==
    IF contains(file, rot_labels[1]) THEN 1
    ELSE IF contains(file, rot_labels[2]) THEN 2
    ELSE IF contains(file, rot_labels[3]) THEN 3
    ELSE 0

\* img.rotate(angle, expand=False) on a square image: PIL turns counter-
\* clockwise by angle; rot is the clockwise turn accumulated so far.
rotate(e, angle) == [e EXCEPT !.rot = (e.rot - angle) % 360]

Unit(b) == [i \in 1..3 |-> IF i = b THEN 1 ELSE 0]
Zero3 == [i \in 1..3 |-> 0]

\* One iteration with three independent ifs in place of the elif chain.
RECURSIVE rotate_each_match(_, _, _, _, _)
rotate_each_match(i, file, dir, saves, inc) ==
    IF i > 3 THEN [dir |-> dir, saves |-> saves, inc |-> inc, err |-> FALSE]
    ELSE IF contains(file, rot_labels[i])
         THEN rotate_each_match(i + 1, file, put(dir, file, rotate(dir[file], rot_angles[i])),
                                saves + 1, [inc EXCEPT ![i] = @ + 1])
         ELSE rotate_each_match(i + 1, file, dir, saves, inc)

rotate_file_no_elif(file, dir) ==
    IF dir[file].kind = "blocked"
    THEN [dir |-> dir, saves |-> 0, inc |-> Zero3, err |-> TRUE]
    ELSE IF branch(file) # 0 /\ dir[file].kind = "readonly"
    THEN [dir |-> dir, saves |-> 0, inc |-> Zero3, err |-> TRUE]
    ELSE rotate_each_match(1, file, dir, 0, Zero3)

\* One iteration that skips a file already carrying a rotation.
rotate_file_guarded(file, dir) ==
    LET b == branch(file) IN
    IF dir[file].kind = "blocked"
    THEN [dir |-> dir, saves |-> 0, inc |-> Zero3, err |-> TRUE]
    ELSE IF b = 0 \/ dir[file].rot # 0
    THEN [dir |-> dir, saves |-> 0, inc |-> Zero3, err |-> FALSE]
    ELSE IF dir[file].kind = "readonly"
    THEN [dir |-> dir, saves |-> 0, inc |-> Zero3, err |-> TRUE]
    ELSE [dir |-> put(dir, file, rotate(dir[file], rot_angles[b])),
          saves |-> 1, inc |-> Unit(b), err |-> FALSE]

\* One iteration of the loop of rotate_images_in_folder on file: Image.open
\* (raises on an entry that is no image), the branch on the name, rotate,
\* save (raises on a path that cannot be written), the branch's counter.
\* saves counts the saves that returned, inc the counter increments.
rotate_file(file, dir) ==
    LET b == branch(file) IN
    IF dir[file].kind = "blocked"
    THEN [dir |-> dir, saves |-> 0, inc |-> Zero3, err |-> TRUE]
    ELSE IF b = 0
    THEN [dir |-> dir, saves |-> 0, inc |-> Zero3, err |-> FALSE]
    ELSE IF dir[file].kind = "readonly"
    THEN [dir |-> dir, saves |-> 0, inc |-> Zero3, err |-> TRUE]
    ELSE [dir |-> put(dir, file, rotate(dir[file], rot_angles[b])),
          saves |-> 1, inc |-> Unit(b), err |-> FALSE]

\* --------------------------------------------------------------- the state
VARIABLES
    inDir,      \* input folder: name -> source content
    outDir,     \* output folder: name -> entry
    out0,       \* the output folder as it was found
    in0,        \* the input folder as it was found
    pc,         \* position of the driver
    todo,       \* process_folder: the tiff_files not yet iterated
    successful, \* process_folder: counter
    failed,     \* process_folder: counter
    calls,      \* per file crop_image was called on: what the call did
    reported,   \* process_folder printed that no TIFF file was found
    rtodo,      \* rotate_images_in_folder: the tiff_files not yet iterated
    counts,     \* <<kanan_atas_count, kanan_bawah_count, kiri_bawah_count>>
    rlog        \* per call of rotate_images_in_folder: file -> what its iteration did

vars == <<inDir, outDir, out0, in0, pc, todo, successful, failed, calls, reported,
          rtodo, counts, rlog>>

EmptyDir == [n \in {} |-> Blocked]

\* What the output folder can hold when the driver starts: nothing, or one
\* entry at an output path of source a: a directory in the place of any of
\* the four crops, or the top-left or top-right crop of an earlier run,
\* carrying the rotation that run gave it, the top-right one possibly made
\* read-only since.
PreNames == {output_path(<<"a">>, crop_names[i]) : i \in 1..4}
PreRot(p) == IF branch(p) = 0 THEN 0 ELSE (-rot_angles[branch(p)]) % 360
PreBox(p) == LET i == CHOOSE i \in 1..4 : p.words[Len(p.words)] = crop_names[i]
             IN  crop_coords(required_size, required_size)[i]
PreEntries(p) ==
    {Blocked}
    \cup (IF p.words[Len(p.words)] \in {crop_names[1], crop_names[2]}
          THEN {Img(Earlier, PreBox(p), PreRot(p))} ELSE {})
    \cup (IF p.words[Len(p.words)] = crop_names[2]
          THEN {[Img(Earlier, PreBox(p), PreRot(p)) EXCEPT !.kind = "readonly"]} ELSE {})
PreDirs == {EmptyDir} \cup UNION {{p :> e : e \in PreEntries(p)} : p \in PreNames}

Init ==
    /\ \E S \in SUBSET InNames :
          /\ Cardinality(S) <= MaxFiles
          /\ inDir \in [S -> SrcKinds]
          \* the content of a file the extension filter drops is never read
          /\ \A f \in S : is_tiff(f) \/ inDir[f] = [readable |-> TRUE, w |-> 800, h |-> 800]
    /\ outDir \in PreDirs
    /\ out0 = outDir
    /\ in0 = inDir
    /\ pc = "main"
    /\ todo = {}
    /\ successful = 0
    /\ failed = 0
    /\ calls = EmptyDir
    /\ reported = FALSE
    /\ rtodo = {}
    /\ counts = Zero3
    /\ rlog = <<>>

tiff_files(dir) == {f \in DOMAIN dir : is_tiff(f)}

\* process_folder up to its loop: the listing, the filter, the early return.
\* os.makedirs leaves an existing folder alone and makes an absent one
\* empty, so the folder is its set of entries from here on.
process_folder_begin ==
    /\ pc = "main"
    /\ IF tiff_files(inDir) = {}
       THEN /\ reported' = TRUE
            /\ pc' = "main_rotate"
            /\ todo' = {}
       ELSE /\ reported' = FALSE
            /\ pc' = "crop_loop"
            /\ todo' = tiff_files(inDir)
    /\ successful' = 0
    /\ failed' = 0
    /\ UNCHANGED <<inDir, outDir, out0, in0, calls, rtodo, counts, rlog>>

\* The four paths a call of crop_image on f can write.
targets(f) == {output_path(base_name(f), crop_names[i]) : i \in 1..Len(crop_names)}

restrict(dir, S) == [p \in S \cap DOMAIN dir |-> dir[p]]

\* The paths whose entry differs between two states of a folder.
changed(d1, d2) ==
    {p \in DOMAIN d1 \cup DOMAIN d2 :
        p \notin DOMAIN d1 \/ p \notin DOMAIN d2 \/ d1[p] # d2[p]}

\* What is kept of a call of crop_image on f with result r in folder dir:
\* its return value and exit, the saves in order, what was at its four
\* output paths before and after, which paths of the folder it changed, and
\* how many times f has been called.
call_record(f, r, dir, log) ==
    [file |-> f, ok |-> r.ok, err |-> r.err, saved |-> r.saved, attempted |-> r.attempted,
     before |-> restrict(dir, targets(f)), after |-> restrict(r.dir, targets(f)),
     changed |-> changed(dir, r.dir),
     n |-> IF f \in DOMAIN log THEN log[f].n + 1 ELSE 1]

\* One iteration of the loop that stops the batch at the first failure.
crop_step_abort ==
    /\ pc = "crop_loop"
    /\ \E tiff_file \in todo :
          LET r == crop_image(tiff_file, inDir[tiff_file], outDir) IN
          /\ outDir' = r.dir
          /\ calls' = put(calls, tiff_file, call_record(tiff_file, r, outDir, calls))
          /\ successful' = IF r.ok THEN successful + 1 ELSE successful
          /\ failed' = IF r.ok THEN failed ELSE failed + 1
          /\ todo' = IF r.ok THEN todo \ {tiff_file} ELSE {}
    /\ UNCHANGED <<inDir, out0, in0, pc, reported, rtodo, counts, rlog>>

\* One iteration of the loop of process_folder.  os.listdir fixes no order,
\* so any file still to do can be the next.
crop_step ==
    /\ pc = "crop_loop"
    /\ \E tiff_file \in todo :
          LET r == crop_image(tiff_file, inDir[tiff_file], outDir) IN
          /\ outDir' = r.dir
          /\ calls' = put(calls, tiff_file, call_record(tiff_file, r, outDir, calls))
          /\ successful' = IF r.ok THEN successful + 1 ELSE successful
          /\ failed' = IF r.ok THEN failed ELSE failed + 1
          /\ todo' = todo \ {tiff_file}
    /\ UNCHANGED <<inDir, out0, in0, pc, reported, rtodo, counts, rlog>>

\* The loop is over: the summary is printed and process_folder returns.
process_folder_end ==
    /\ pc = "crop_loop"
    /\ todo = {}
    /\ pc' = "main_rotate"
    /\ UNCHANGED <<inDir, outDir, out0, in0, todo, successful, failed, calls, reported,
                   rtodo, counts, rlog>>

\* rotate_images_in_folder up to its loop, called by the driver after
\* process_folder has returned.
rotate_begin ==
    /\ pc = "main_rotate"
    /\ rtodo' = tiff_files(outDir)
    /\ counts' = Zero3
    /\ rlog' = Append(rlog, EmptyDir)
    /\ pc' = "rotate_loop"
    /\ UNCHANGED <<inDir, outDir, out0, in0, todo, successful, failed, calls, reported>>

\* One iteration of the loop of rotate_images_in_folder.  os.listdir fixes
\* no order, so any file still to do can be the next.
rotate_step ==
    /\ pc = "rotate_loop"
    /\ \E file \in rtodo :
          LET r == rotate_file(file, outDir) IN
          /\ outDir' = r.dir
          /\ counts' = [i \in 1..3 |-> counts[i] + r.inc[i]]
          /\ rlog' = [rlog EXCEPT ![Len(rlog)] =
                         put(@, file, [saves |-> r.saves, inc |-> r.inc, err |-> r.err,
                                       before |-> outDir[file], after |-> r.dir[file]])]
          /\ rtodo' = rtodo \ {file}
    /\ UNCHANGED <<inDir, out0, in0, pc, todo, successful, failed, calls, reported>>

\* The loop is over: the summary is printed and the function returns.
rotate_end ==
    /\ pc = "rotate_loop"
    /\ rtodo = {}
    /\ pc' = "done"
    /\ UNCHANGED <<inDir, outDir, out0, in0, todo, successful, failed, calls, reported,
                   rtodo, counts, rlog>>

\* rotate_images_in_folder is called once more on the same folder.
rotate_again ==
    /\ pc = "done"
    /\ Len(rlog) < MaxPasses
    /\ pc' = "main_rotate"
    /\ UNCHANGED <<inDir, outDir, out0, in0, todo, successful, failed, calls, reported,
                   rtodo, counts, rlog>>

Next ==
    \/ process_folder_begin
    \/ crop_step
    \/ process_folder_end
    \/ rotate_begin
    \/ rotate_step
    \/ rotate_end
    \/ rotate_again

Spec == Init /\ [][Next]_vars

\* ------------------------------------------------- vocabulary of the properties
TopLeft == "kiri_atas"
TopRight == "kanan_atas"
BottomLeft == "kiri_bawah"
BottomRight == "kanan_bawah"
CornerOrder == <<TopLeft, TopRight, BottomLeft, BottomRight>>

\* <base_name>_<label>.tiff
Named(f, label) == [words |-> f.words \o <<label>>, ext |-> "tiff"]
NamedAll(f) == [i \in 1..4 |-> Named(f, CornerOrder[i])]

HasLabel(f, label) == \E i \in 1..Len(f.words) : f.words[i] = label
Qualifying == {f \in DOMAIN inDir : f.ext \in {"tif", "tiff", "TIF", "TIFF"}}
Writable(dir, p) == p \notin DOMAIN dir \/ dir[p].kind = "image"
Is800(f) == inDir[f].readable /\ inDir[f].w = 800 /\ inDir[f].h = 800
Prefix(s, n) == SubSeq(s, 1, n)

\* The clockwise angle the rotator's priority order gives a name.
FirstLabelAngle(f) ==
    IF HasLabel(f, TopRight) THEN 90
    ELSE IF HasLabel(f, BottomRight) THEN 180
    ELSE IF HasLabel(f, BottomLeft) THEN 270
    ELSE 0
FirstLabelIndex(f) ==
    IF HasLabel(f, TopRight) THEN 1
    ELSE IF HasLabel(f, BottomRight) THEN 2
    ELSE IF HasLabel(f, BottomLeft) THEN 3
    ELSE 0

\* The sum of the i-th counter's increments over the files S of a pass.
RECURSIVE SumInc(_, _, _)
SumInc(log, S, i) ==
    IF S = {} THEN 0
    ELSE LET f == CHOOSE f \in S : TRUE
         IN  log[f].inc[i] + SumInc(log, S \ {f}, i)

\* C1 as stated: every crop_image call on a readable 800x800 source returns
\* success and has written the four 512x512 files <base_name>_<label>.tiff.
C1_AsStated ==
    \A k \in DOMAIN calls :
        LET c == calls[k] IN
        Is800(c.file) =>
            /\ c.ok
            /\ Len(c.saved) = 4
            /\ SeqToSet(c.saved) = {Named(c.file, CornerOrder[i]) : i \in 1..4}

\* C1 amended: every crop_image call on a readable 800x800 source whose four
\* output paths can be written returns success and has written exactly four
\* files, one <base_name>_<label>.tiff per corner label, each a 512x512 crop
\* of that source.
C1_CropWritesFour ==
    \A k \in DOMAIN calls :
        LET c == calls[k] IN
        (Is800(c.file) /\ \A i \in 1..4 : Writable(c.before, Named(c.file, CornerOrder[i]))) =>
            /\ c.ok
            /\ Len(c.saved) = 4
            /\ SeqToSet(c.saved) = {Named(c.file, CornerOrder[i]) : i \in 1..4}
            /\ \A i \in 1..4 :
                  LET p == Named(c.file, CornerOrder[i]) IN
                  /\ p \in DOMAIN c.after
                  /\ c.after[p].kind = "image"
                  /\ c.after[p].src = c.file
                  /\ ImgW(c.after[p]) = 512
                  /\ ImgH(c.after[p]) = 512
            /\ c.changed \subseteq SeqToSet(c.saved)

C1_Witness ==
    \E k \in DOMAIN calls :
        /\ Is800(calls[k].file)
        /\ calls[k].ok
        /\ calls[k].file.ext = "tif"
        /\ Named(calls[k].file, TopRight) \in DOMAIN outDir

\* C2: a crop_image call on a readable source whose width or height is not
\* 800 returns failure through the size exit, calls save on nothing, and
\* leaves the output folder and the input folder as they were.
C2_MismatchWritesNothing ==
    /\ inDir = in0
    /\ \A k \in DOMAIN calls :
        LET c == calls[k] IN
        (inDir[c.file].readable /\ (inDir[c.file].w # 800 \/ inDir[c.file].h # 800)) =>
            /\ ~c.ok
            /\ c.err = "size"
            /\ c.attempted = <<>>
            /\ c.saved = <<>>
            /\ c.changed = {}
            /\ c.after = c.before

C2_Witness ==
    \E k \in DOMAIN calls :
        /\ inDir[calls[k].file].readable
        /\ inDir[calls[k].file].w = 800
        /\ inDir[calls[k].file].h = 600
        /\ ~calls[k].ok
        /\ DOMAIN calls[k].before # {}

\* C3: the crops of an 800x800 source are the regions (0,0,512,512) top-left,
\* (288,0,800,512) top-right, (0,288,512,800) bottom-left and
\* (288,288,800,800) bottom-right; each lies inside the source and
\* neighbouring regions overlap by 224 pixels.
C3_Regions ==
    \A k \in DOMAIN calls :
        LET c == calls[k]
            box(label) == c.after[Named(c.file, label)].box
        IN
        Is800(c.file) =>
            /\ \A i \in 1..Len(c.saved) :
                  LET b == c.after[c.saved[i]].box IN
                  /\ c.saved[i] = Named(c.file, CornerOrder[i])
                  /\ b = CASE i = 1 -> <<0, 0, 512, 512>>
                           [] i = 2 -> <<288, 0, 800, 512>>
                           [] i = 3 -> <<0, 288, 512, 800>>
                           [] i = 4 -> <<288, 288, 800, 800>>
                  /\ 0 <= b[1] /\ b[1] < b[3] /\ b[3] <= inDir[c.file].w
                  /\ 0 <= b[2] /\ b[2] < b[4] /\ b[4] <= inDir[c.file].h
            /\ c.ok =>
                  /\ box(TopLeft)[3] - box(TopRight)[1] = 224
                  /\ box(BottomLeft)[3] - box(BottomRight)[1] = 224
                  /\ box(TopLeft)[4] - box(BottomLeft)[2] = 224
                  /\ box(TopRight)[4] - box(BottomRight)[2] = 224

C3_Witness ==
    \E k \in DOMAIN calls :
        /\ Is800(calls[k].file)
        /\ calls[k].ok
        /\ Named(calls[k].file, BottomRight) \in DOMAIN outDir
        /\ outDir[Named(calls[k].file, BottomRight)].box = <<288, 288, 800, 800>>

\* C4 as stated, for files that can be read and written: in every pass a
\* file whose name contains the top-right label is turned 90 degrees
\* clockwise, one whose name contains the bottom-right label 180, one whose
\* name contains the bottom-left label 270, and one whose name contains the
\* top-left label is not written.
C4_AsStated ==
    \A k \in DOMAIN rlog : \A f \in DOMAIN rlog[k] :
        LET r == rlog[k][f]
            turned(angle) == r.saves = 1 /\ r.after.rot = (r.before.rot + angle) % 360
        IN
        r.before.kind = "image" =>
            /\ HasLabel(f, TopRight) => turned(90)
            /\ HasLabel(f, BottomRight) => turned(180)
            /\ HasLabel(f, BottomLeft) => turned(270)
            /\ HasLabel(f, TopLeft) => (r.saves = 0 /\ r.after = r.before)

\* C5: process_folder calls crop_image once on every qualifying file whatever
\* the earlier calls returned: after each step successful + failed is the
\* number of calls made, no file is called twice, every qualifying file not
\* yet called is still to do, and when the loop has ended every qualifying
\* file has been called and successful + failed is their number.
C5_WholeBatch ==
    LET called == DOMAIN calls
        oks == {f \in DOMAIN calls : calls[f].ok}
    IN
    /\ \A f \in called : calls[f].n = 1 /\ calls[f].file = f
    /\ successful + failed = Cardinality(called)
    /\ successful = Cardinality(oks)
    /\ called \subseteq Qualifying
    /\ pc = "crop_loop" => todo = Qualifying \ called
    /\ pc \in {"main_rotate", "rotate_loop", "done"} =>
          /\ called = Qualifying
          /\ successful + failed = Cardinality(Qualifying)

C5_Witness ==
    /\ pc = "main_rotate"
    /\ Cardinality(DOMAIN calls) = 2
    /\ \E f, g \in DOMAIN calls : ~calls[f].ok /\ calls[g].ok
    /\ successful = 1
    /\ failed = 1

\* C6: rotation has no already-rotated guard and is not idempotent: in every
\* pass each readable, writable file whose name carries a rotating label is
\* saved with its label's angle added to the rotation it had, so what a pass
\* leaves differs from what the pass before left; a fresh top-right crop is
\* at 90 degrees after one pass and at 180 after two.
C6_RotationAccumulates ==
    \A k \in DOMAIN rlog : \A f \in DOMAIN rlog[k] :
        LET r == rlog[k][f] IN
        (r.before.kind = "image" /\ FirstLabelAngle(f) # 0) =>
            /\ r.saves = 1
            /\ r.after.rot = (r.before.rot + FirstLabelAngle(f)) % 360
            /\ r.after # r.before
            /\ k > 1 =>
                  /\ f \in DOMAIN rlog[k - 1]
                  /\ r.before = rlog[k - 1][f].after
                  /\ r.after # rlog[k - 1][f].after
            /\ (k = 2 /\ rlog[1][f].before.rot = 0 /\ HasLabel(f, TopRight)) =>
                  (rlog[1][f].after.rot = 90 /\ r.after.rot = 180)

C6_Witness ==
    /\ pc = "done"
    /\ Len(rlog) = 2
    /\ \E f \in DOMAIN rlog[2] :
          /\ HasLabel(f, TopRight)
          /\ rlog[1][f].before.rot = 0
          /\ rlog[1][f].after.rot = 90
          /\ outDir[f].rot = 180

\* C7 as stated: when the input folder holds no qualifying file the pipeline
\* reports it, calls crop_image on nothing, saves nothing in the rotate step
\* and leaves the output folder as it found it.
C7_AsStated ==
    (Qualifying = {} /\ pc # "main") =>
        /\ reported
        /\ DOMAIN calls = {}
        /\ \A k \in DOMAIN rlog : \A f \in DOMAIN rlog[k] : rlog[k][f].saves = 0
        /\ outDir = out0

\* C8: the first label of the order top-right, bottom-right, bottom-left that
\* a name contains decides alone: an iteration saves its file at most once,
\* and when it saves, it turns the file by that label's angle and increments
\* that label's counter, and only that one, by one; when it does not save it
\* changes neither the file nor a counter; the counters are the sums of the
\* increments of the pass.
C8_FirstLabelWins ==
    /\ \A k \in DOMAIN rlog : \A f \in DOMAIN rlog[k] :
          LET r == rlog[k][f] IN
          /\ r.saves <= 1
          /\ r.saves = 1 =>
                /\ FirstLabelIndex(f) # 0
                /\ r.inc = [i \in 1..3 |-> IF i = FirstLabelIndex(f) THEN 1 ELSE 0]
                /\ r.after.rot = (r.before.rot + FirstLabelAngle(f)) % 360
          /\ r.saves = 0 =>
                /\ r.inc = [i \in 1..3 |-> 0]
                /\ r.after = r.before
          /\ (r.before.kind = "image" /\ FirstLabelIndex(f) # 0) => r.saves = 1
    /\ rlog # <<>> =>
          \A i \in 1..3 :
              counts[i] = SumInc(rlog[Len(rlog)], DOMAIN rlog[Len(rlog)], i)

C8_Witness ==
    \E k \in DOMAIN rlog : \E f \in DOMAIN rlog[k] :
        /\ HasLabel(f, BottomRight)
        /\ HasLabel(f, TopRight)
        /\ f.words[1] = BottomRight
        /\ rlog[k][f].saves = 1
        /\ rlog[k][f].inc = <<1, 0, 0>>
        /\ counts[1] >= 1

\* C9: crop_image saves in the order top-left, top-right, bottom-left,
\* bottom-right and does not roll back: on an 800x800 source, if the k-th
\* path is the first that cannot be written, the call returns failure, the
\* k-1 crops before it are in the folder, save was called on nothing after
\* the k-th, and everything else in the folder is as it was; the call
\* returns success only when all four saves returned.
C9_NoRollback ==
    \A n \in DOMAIN calls :
        LET c == calls[n]
            order == NamedAll(c.file)
            bad == {i \in 1..4 : ~Writable(c.before, order[i])}
            k == IF bad = {} THEN 5 ELSE CHOOSE i \in bad : \A j \in bad : i <= j
        IN
        /\ c.ok <=> (Len(c.saved) = 4 /\ c.err = "none")
        /\ Is800(c.file) =>
              /\ c.ok <=> bad = {}
              /\ c.saved = Prefix(order, k - 1)
              /\ c.attempted = Prefix(order, IF k = 5 THEN 4 ELSE k)
              /\ \A i \in 1..(k - 1) :
                    /\ order[i] \in DOMAIN c.after
                    /\ c.after[order[i]].src = c.file
                    /\ c.after[order[i]].kind = "image"
              /\ DOMAIN c.after = DOMAIN c.before \cup SeqToSet(c.saved)
              /\ \A p \in DOMAIN c.before \ SeqToSet(c.saved) : c.after[p] = c.before[p]
              /\ c.changed \subseteq SeqToSet(c.saved)

C9_Witness ==
    \E n \in DOMAIN calls :
        /\ Is800(calls[n].file)
        /\ ~calls[n].ok
        /\ Len(calls[n].saved) = 2
        /\ Len(calls[n].attempted) = 3
        /\ calls[n].saved[1] \in DOMAIN outDir
        /\ outDir[calls[n].saved[1]].src = calls[n].file
        /\ Named(calls[n].file, BottomRight) \notin DOMAIN outDir

\* C10 as stated, for a crop phase into an empty output folder: when the phase
\* has ended, two different sources have written disjoint sets of paths,
\* every crop of a successfully cropped source is still that source's, and
\* the folder holds four files per success.
C10_AsStated ==
    (pc = "main_rotate" /\ out0 = EmptyDir) =>
        /\ \A i, j \in DOMAIN calls :
              i # j => SeqToSet(calls[i].saved) \cap SeqToSet(calls[j].saved) = {}
        /\ \A i \in DOMAIN calls : calls[i].ok =>
              \A p \in SeqToSet(calls[i].saved) : outDir[p].src = calls[i].file
        /\ Cardinality(DOMAIN outDir) = 4 * successful
====
